---- MODULE Spec2Model ----
(***************************************************************************)
(* A model of the pdftok scanner (lex.go): the lexer's fields, the state   *)
(* functions run by the producer goroutine, and the handoff of items to    *)
(* the consumer over the unbuffered channel l.items.                       *)
(*                                                                         *)
(* The input is a sequence of bytes.  An ASCII byte is written as the      *)
(* one-character string of that character; the bytes 0xC3, 0xA9, 0xEF,     *)
(* 0xBF and 0xBD are written "C3", "A9", "EF", "BF" and "BD", and the     *)
(* backquote 0x60 is written "BQ".  Offsets are Go's: 0-based, so          *)
(* input[a:b] is SubSeq(input, a + 1, b).                                  *)
(***************************************************************************)
EXTENDS Integers, Sequences, FiniteSets, TLC

\* ------------------------------------------------------------------------
\* Bounds of the model
\* ------------------------------------------------------------------------

\* an input is the concatenation of at most MaxChunks chunks of CoreChunks
MaxChunks == 3

\* or of at most MaxKeyChunks chunks of KeyChunks
MaxKeyChunks == 3

\* or of at most MaxStringChunks chunks of StringChunks
MaxStringChunks == 6

\* or of at most MaxBracketChunks chunks of BracketChunks
MaxBracketChunks == 5

\* ------------------------------------------------------------------------
\* Bytes and runes
\* ------------------------------------------------------------------------

\* the printable ASCII characters, 0x20 .. 0x7E, in code order
Ascii ==
    <<" ", "!", "\"", "#", "$", "%", "&", "'", "(", ")", "*", "+", ",", "-",
      ".", "/", "0", "1", "2", "3", "4", "5", "6", "7", "8", "9", ":", ";",
      "<", "=", ">", "?", "@", "A", "B", "C", "D", "E", "F", "G", "H", "I",
      "J", "K", "L", "M", "N", "O", "P", "Q", "R", "S", "T", "U", "V", "W",
      "X", "Y", "Z", "[", "\\", "]", "^", "_", "BQ", "a", "b", "c", "d", "e",
      "f", "g", "h", "i", "j", "k", "l", "m", "n", "o", "p", "q", "r", "s",
      "t", "u", "v", "w", "x", "y", "z", "{", "|", "}", "~">>

Printable == {Ascii[i] : i \in 1..Len(Ascii)}

\* the ASCII bytes of the model: the printable ones, TAB, LF, FF and CR
AsciiBytes == Printable \cup {"\t", "\n", "\f", "\r"}

Digits == {"0", "1", "2", "3", "4", "5", "6", "7", "8", "9"}

Letters == {Ascii[i] : i \in (34..59) \cup (66..91)}

HexChars == <<"0", "1", "2", "3", "4", "5", "6", "7", "8", "9",
              "A", "B", "C", "D", "E", "F">>

hexLower == <<"0", "1", "2", "3", "4", "5", "6", "7", "8", "9",
              "a", "b", "c", "d", "e", "f">>

eof == "EOF"

\* U+00E9, a letter whose UTF-8 encoding is the two bytes C3 A9
eAcute == "U+00E9"

\* utf8.RuneError, what an invalid byte decodes to (width 1)
RuneError == "U+FFFD"

\* the code point of a rune
Ord(r) ==
    CASE r \in Printable -> 31 + CHOOSE i \in 1..Len(Ascii) : Ascii[i] = r
      [] r = "\t" -> 9
      [] r = "\n" -> 10
      [] r = "\f" -> 12
      [] r = "\r" -> 13
      [] r = eAcute -> 233
      [] r = RuneError -> 65533

\* the UTF-8 encoding of a rune
Utf8(r) ==
    CASE r = eAcute -> <<"C3", "A9">>
      [] r = RuneError -> <<"EF", "BF", "BD">>
      [] OTHER -> <<r>>

\* the numeric value of a byte
ByteVal(b) ==
    CASE b = "C3" -> 195
      [] b = "A9" -> 169
      [] b = "EF" -> 239
      [] b = "BF" -> 191
      [] b = "BD" -> 189
      [] OTHER -> Ord(b)

\* utf8.DecodeRuneInString(s[p:]) for p < len(s): the rune and its width
DecodeRune(s, p) ==
    LET b == s[p + 1] IN
    IF b \in AsciiBytes THEN <<b, 1>>
    ELSE IF b = "C3" /\ p + 2 <= Len(s) /\ s[p + 2] = "A9" THEN <<eAcute, 2>>
    ELSE <<RuneError, 1>>

\* unicode.IsSpace, on the runes of the model
IsSpace(r) == r \in {"\t", "\n", "\f", "\r", " "}

isEndOfLine(r) == r = "\r" \/ r = "\n"

isDelim(r) == r \in {"[", "]", "{", "}", "(", ")", "<", ">", "/", "%"}

isAlphaNumeric(r) == r = "_" \/ r \in Letters \/ r = eAcute \/ r \in Digits

\* 0x20 < r && r < 0x7f
isNameChar(r) == r \in Printable /\ r # " "

hexDigits == Digits \cup {"a", "b", "c", "d", "e", "f", "A", "B", "C", "D", "E", "F"}

\* ------------------------------------------------------------------------
\* Constant strings and the keyword table
\* ------------------------------------------------------------------------

leftDict == <<"<", "<">>

rightDict == <<">", ">">>

leftStream == <<"s","t","r","e","a","m">>

rightStream == <<"e","n","d","s","t","r","e","a","m">>

\* keytoks in which null is no keyword
keytoks_noNull ==
    [w \in { <<"o","b","j">>, <<"e","n","d","o","b","j">>, leftStream,
             rightStream, <<"t","r","a","i","l","e","r">>, <<"x","r","e","f">>,
             <<"s","t","a","r","t","x","r","e","f">>, <<"t","r","u","e">>,
             <<"f","a","l","s","e">>, <<"n","u","l","l">> } |->
        CASE w = <<"o","b","j">> -> "itemObj"
          [] w = <<"e","n","d","o","b","j">> -> "itemEndObj"
          [] w = leftStream -> "itemStream"
          [] w = rightStream -> "itemEndStream"
          [] w = <<"t","r","a","i","l","e","r">> -> "itemTrailer"
          [] w = <<"x","r","e","f">> -> "itemXref"
          [] w = <<"s","t","a","r","t","x","r","e","f">> -> "itemStartXref"
          [] w = <<"t","r","u","e">> -> "itemTrue"
          [] w = <<"f","a","l","s","e">> -> "itemFalse"
          [] w = <<"n","u","l","l">> -> "itemWord"]

keytoks ==
    [w \in { <<"o","b","j">>, <<"e","n","d","o","b","j">>, leftStream,
             rightStream, <<"t","r","a","i","l","e","r">>, <<"x","r","e","f">>,
             <<"s","t","a","r","t","x","r","e","f">>, <<"t","r","u","e">>,
             <<"f","a","l","s","e">>, <<"n","u","l","l">> } |->
        CASE w = <<"o","b","j">> -> "itemObj"
          [] w = <<"e","n","d","o","b","j">> -> "itemEndObj"
          [] w = leftStream -> "itemStream"
          [] w = rightStream -> "itemEndStream"
          [] w = <<"t","r","a","i","l","e","r">> -> "itemTrailer"
          [] w = <<"x","r","e","f">> -> "itemXref"
          [] w = <<"s","t","a","r","t","x","r","e","f">> -> "itemStartXref"
          [] w = <<"t","r","u","e">> -> "itemTrue"
          [] w = <<"f","a","l","s","e">> -> "itemFalse"
          [] w = <<"n","u","l","l">> -> "itemNull"]

\* ------------------------------------------------------------------------
\* Error texts (the format strings of the errorf calls) and fmt's verbs
\* ------------------------------------------------------------------------

msgUnexpectedArray ==
    <<"u","n","e","x","e","x","p","e","c","t","e","d"," ","a","r","r","a","y"," ","t","e","r","m","i","n","a","t","o","r">>

msgUnexpectedDict ==
    <<"u","n","e","x","e","x","p","e","c","t","e","d"," ","d","i","c","t"," ","t","e","r","m","i","n","a","t","o","r">>

msgUnterminatedArray ==
    <<"u","n","t","e","r","m","i","n","a","t","e","d"," ","a","r","r","a","y">>

msgUnterminatedDict ==
    <<"u","n","t","e","r","m","i","n","a","t","e","d"," ","d","i","c","t">>

msgIllegalChar ==
    <<"i","l","l","e","g","a","l"," ","c","h","a","r","a","c","t","e","r",":"," ">>

msgUnclosedStream ==
    <<"u","n","c","l","o","s","e","d"," ","s","t","r","e","a","m">>

msgIllegalName ==
    <<"i","l","l","e","g","a","l"," ","c","h","a","r","a","c","t","e","r"," ","i","n"," ","n","a","m","e",":"," ">>

msgUnterminatedString ==
    <<"u","n","t","e","r","m","i","n","a","t","e","d"," ","s","t","r","i","n","g"," ","o","b","j","e","c","t">>

msgUnterminatedHex ==
    <<"u","n","t","e","r","m","i","n","a","t","e","d"," ","h","e","x","s","t","r","i","n","g">>

msgIllegalHex ==
    <<"i","l","l","e","g","a","l"," ","c","h","a","r","a","c","t","e","r"," ","i","n"," ","h","e","x","s","t","r","i","n","g",":"," ">>

msgBadNumber ==
    <<"b","a","d"," ","n","u","m","b","e","r"," ","s","y","n","t","a","x",":"," ">>

\* the verb %#U: U+XXXX, then the quoted character when it is printable
FmtU(r) ==
    LET n == Ord(r)
        hex == <<HexChars[((n \div 4096) % 16) + 1], HexChars[((n \div 256) % 16) + 1],
                 HexChars[((n \div 16) % 16) + 1], HexChars[(n % 16) + 1]>>
    IN  <<"U", "+">> \o hex \o
        (IF r \in {"\t", "\n", "\f", "\r"} THEN <<>> ELSE <<" ", "'">> \o Utf8(r) \o <<"'">>)

\* strconv.Quote's escape of the rune that starts at offset p of s
QuoteRune(s, p) ==
    LET d == DecodeRune(s, p) IN
    CASE d[1] = RuneError ->
            <<"\\", "x", hexLower[(ByteVal(s[p + 1]) \div 16) + 1],
              hexLower[(ByteVal(s[p + 1]) % 16) + 1]>>
      [] d[1] = "\"" -> <<"\\", "\"">>
      [] d[1] = "\\" -> <<"\\", "\\">>
      [] d[1] = "\t" -> <<"\\", "t">>
      [] d[1] = "\n" -> <<"\\", "n">>
      [] d[1] = "\f" -> <<"\\", "f">>
      [] d[1] = "\r" -> <<"\\", "r">>
      [] OTHER -> Utf8(d[1])

RECURSIVE QuoteFrom(_, _)
QuoteFrom(s, p) ==
    IF p >= Len(s) THEN <<>>
    ELSE QuoteRune(s, p) \o QuoteFrom(s, p + DecodeRune(s, p)[2])

\* the verb %q
FmtQ(s) == <<"\"">> \o QuoteFrom(s, 0) \o <<"\"">>

\* ------------------------------------------------------------------------
\* State
\* ------------------------------------------------------------------------

\* l.input, the bytes being scanned (never written)
VARIABLE input

\* the lexer's fields: state, pos, start, width, lastPos, arrayDepth, dictDepth
VARIABLE l

\* where the goroutine of run is: "run" at the head of the loop of run (or
\* "done" once it has left it), "loop" inside the loop of lexComment, or the
\* send it has reached inside a state function
VARIABLE pc

\* l.items: the items sent and not yet received
VARIABLE items

\* every item passed to a send on l.items, in order
VARIABLE sent

\* every item returned by nextItem, in order
VARIABLE received

vars == <<input, l, pc, items, sent, received>>

item(typ, pos, val) == [typ |-> typ, pos |-> pos, val |-> val]

\* input[a:b]
Slice(a, b) == SubSeq(input, a + 1, b)

\* ------------------------------------------------------------------------
\* The lexer's primitives.  An operator that reads a rune returns the
\* record [r |-> the rune, l |-> the lexer afterwards].
\* ------------------------------------------------------------------------

next(lx) ==
    IF lx.pos >= Len(input)
    THEN [r |-> eof, l |-> [lx EXCEPT !.width = 0]]
    ELSE LET d == DecodeRune(input, lx.pos)
         IN  [r |-> d[1], l |-> [lx EXCEPT !.width = d[2], !.pos = lx.pos + d[2]]]

backup(lx) == [lx EXCEPT !.pos = lx.pos - lx.width]

peek(lx) == LET n == next(lx) IN [r |-> n.r, l |-> backup(n.l)]

\* accept: [ok |-> whether a rune of valid was consumed, l |-> the lexer]
accept(lx, valid) ==
    LET n == next(lx)
    IN  IF n.r \in valid THEN [ok |-> TRUE, l |-> n.l]
        ELSE [ok |-> FALSE, l |-> backup(n.l)]

RECURSIVE acceptRun(_, _)
acceptRun(lx, valid) ==
    LET n == next(lx)
    IN  IF n.r \in valid THEN acceptRun(n.l, valid) ELSE backup(n.l)

\* ------------------------------------------------------------------------
\* How a state function leaves the goroutine: returned to run with the next
\* state stored in l.state, or blocked in a send on l.items.  The result is
\* [l |-> the lexer, out |-> the item offered (<<>> if none), pc |-> where
\* the goroutine is].
\* ------------------------------------------------------------------------

\* return st
Return(lx, st) == [l |-> [lx EXCEPT !.state = st], out |-> <<>>, pc |-> "run"]

\* emit with the value taken from the beginning of the input
emit_fromZero(lx, t, k) ==
    [l |-> lx, out |-> <<item(t, lx.start, Slice(0, lx.pos))>>, pc |-> k]

\* l.emit(t), up to its send; k names what follows the send
emit(lx, t, k) ==
    [l |-> lx, out |-> <<item(t, lx.start, Slice(lx.start, lx.pos))>>, pc |-> k]

\* l.errorf(...), up to its send
errorf(lx, msg) ==
    [l |-> lx, out |-> <<item("itemError", lx.start, msg)>>, pc |-> "errorf"]

\* ------------------------------------------------------------------------
\* The state functions
\* ------------------------------------------------------------------------

\* the end of input with the dict depth looked at before the array depth
lexDefaultEOF_dictFirst(lx) ==
    IF lx.dictDepth > 0 THEN errorf(lx, msgUnterminatedDict)
    ELSE IF lx.arrayDepth > 0 THEN errorf(lx, msgUnterminatedArray)
    ELSE emit(lx, "itemEOF", "emitEOF")

\* the body shared by the stray '>' (fallthrough) and end of input
lexDefaultEOF(lx) ==
    IF lx.arrayDepth > 0 THEN errorf(lx, msgUnterminatedArray)
    ELSE IF lx.dictDepth > 0 THEN errorf(lx, msgUnterminatedDict)
    ELSE emit(lx, "itemEOF", "emitEOF")

\* case r == '<', the '<' consumed
\* the '<' case that does not count the dict it opens
lexDefaultLess_noCount(lx) ==
    LET p == peek(lx)
    IN  IF p.r = "<"
        THEN Return(backup(p.l), "lexLeftDict")
        ELSE Return(p.l, "lexHexObj")

lexDefaultLess(lx) ==
    LET p == peek(lx)
    IN  IF p.r = "<"
        THEN Return([backup(p.l) EXCEPT !.dictDepth = @ + 1], "lexLeftDict")
        ELSE Return(p.l, "lexHexObj")

\* the ']' case without the test of the depth
lexDefaultRightArray_noCheck(lx) ==
    emit([lx EXCEPT !.arrayDepth = @ - 1], "itemRightArray", "emit")

\* case r == ']', the ']' consumed
lexDefaultRightArray(lx) ==
    LET l2 == [lx EXCEPT !.arrayDepth = @ - 1]
    IN  IF l2.arrayDepth < 0 THEN errorf(l2, msgUnexpectedArray)
        ELSE emit(l2, "itemRightArray", "emit")

\* case r == '>', the '>' consumed
\* the '>' case that does not count the dict it closes
lexDefaultGreater_noCount(lx) ==
    LET p == peek(lx)
    IN  IF p.r = ">"
        THEN IF p.l.dictDepth - 1 < 0 THEN errorf(p.l, msgUnexpectedDict)
             ELSE Return(backup(p.l), "lexRightDict")
        ELSE lexDefaultEOF(p.l)

lexDefaultGreater(lx) ==
    LET p == peek(lx)
    IN  IF p.r = ">"
        THEN LET l2 == [p.l EXCEPT !.dictDepth = @ - 1]
             IN  IF l2.dictDepth < 0 THEN errorf(l2, msgUnexpectedDict)
                 ELSE Return(backup(l2), "lexRightDict")
        ELSE lexDefaultEOF(p.l)

lexDefault(lx) ==
    LET n == next(lx)
        r == n.r
        l1 == n.l
    IN  CASE IsSpace(r) -> Return(l1, "lexSpace")
          [] r = "/" -> Return(l1, "lexName")
          [] r \in {"+", "-", "."} \cup Digits -> Return(backup(l1), "lexNumber")
          [] r \notin Digits /\ isAlphaNumeric(r) -> Return(l1, "lexWord")
          [] r = "(" -> Return(l1, "lexStringObj")
          [] r = "<" -> lexDefaultLess(l1)
          [] r = "[" -> emit(l1, "itemLeftArray", "emitLeftArray")
          [] r = "]" -> lexDefaultRightArray(l1)
          [] r = "%" -> Return(l1, "lexComment")
          [] r = ">" -> lexDefaultGreater(l1)
          [] r = eof -> lexDefaultEOF(l1)
          [] OTHER -> errorf(l1, msgIllegalChar \o FmtU(r))

\* strings.Index(input[p:], rightStream), -1 if absent
RECURSIVE IndexFrom(_, _)
IndexFrom(p, i) ==
    IF p + i + Len(rightStream) > Len(input) THEN -1
    ELSE IF Slice(p + i, p + i + Len(rightStream)) = rightStream THEN i
    ELSE IndexFrom(p, i + 1)

\* lexStream that takes the index of the marker for an offset of the input
lexStream_absolute(lx) ==
    LET i == IndexFrom(lx.pos, 0)
    IN  IF i < 0 THEN errorf(lx, msgUnclosedStream)
        ELSE emit([lx EXCEPT !.pos = i], "itemStreamBody", "emitStreamBody")

lexStream(lx) ==
    LET i == IndexFrom(lx.pos, 0)
    IN  IF i < 0 THEN errorf(lx, msgUnclosedStream)
        ELSE emit([lx EXCEPT !.pos = lx.pos + i], "itemStreamBody", "emitStreamBody")

lexLeftDict(lx) ==
    emit([lx EXCEPT !.pos = lx.pos + Len(leftDict)], "itemLeftDict", "emit")

lexRightDict(lx) ==
    emit([lx EXCEPT !.pos = lx.pos + Len(rightDict)], "itemRightDict", "emit")

\* the loop of lexComment: [exits |-> whether the loop ends, r |-> the last
\* rune read, l |-> the lexer].  The loop ends when peek returns an
\* end-of-line rune.  At end of input peek returns eof, which is not one, and
\* next returns eof without moving: every further iteration finds the same
\* state, which is the one returned, and the loop never ends.
RECURSIVE commentLoop(_, _)
commentLoop(lx, r) ==
    LET p == peek(lx)
    IN  IF isEndOfLine(p.r) THEN [exits |-> TRUE, r |-> r, l |-> p.l]
        ELSE IF p.r = eof THEN [exits |-> FALSE, r |-> eof, l |-> next(p.l).l]
        ELSE LET n == next(p.l) IN commentLoop(n.l, n.r)

\* var r rune
zeroRune == "NUL"

\* lexComment as its comment describes it: the end-of-line marker consumed,
\* CR LF as one marker
lexComment_withEOL(lx) ==
    LET c == commentLoop(lx, zeroRune)
        n == next(c.l)
    IN  IF ~c.exits THEN [l |-> c.l, out |-> <<>>, pc |-> "loop"]
        ELSE IF n.r = "\r" THEN emit(accept(n.l, {"\n"}).l, "itemComment", "emit")
        ELSE emit(n.l, "itemComment", "emit")

lexComment(lx) ==
    LET c == commentLoop(lx, zeroRune)
    IN  IF ~c.exits THEN [l |-> c.l, out |-> <<>>, pc |-> "loop"]
        ELSE IF c.r = "\r" THEN emit(accept(c.l, {"\n"}).l, "itemComment", "emit")
        ELSE emit(c.l, "itemComment", "emit")

RECURSIVE lexName(_)
lexName(lx) ==
    LET n == next(lx)
    IN  IF isDelim(n.r) \/ IsSpace(n.r) \/ n.r = eof THEN emit(backup(n.l), "itemName", "emit")
        ELSE IF isNameChar(n.r) THEN lexName(n.l)
        ELSE errorf(n.l, msgIllegalName \o FmtU(n.r))

\* the loop of lexStringObj without the case of the backslash
RECURSIVE stringLoop_noEscape(_, _)
stringLoop_noEscape(lx, balance) ==
    LET n == next(lx)
    IN  CASE n.r = "(" -> stringLoop_noEscape(n.l, balance + 1)
          [] n.r = ")" ->
                IF balance - 1 <= 0 THEN emit(n.l, "itemString", "emit")
                ELSE stringLoop_noEscape(n.l, balance - 1)
          [] n.r = eof -> errorf(n.l, msgUnterminatedString)
          [] OTHER -> stringLoop_noEscape(n.l, balance)

RECURSIVE stringLoop(_, _)
stringLoop(lx, balance) ==
    LET n == next(lx)
    IN  CASE n.r = "\\" -> stringLoop(accept(n.l, {"(", ")"}).l, balance)
          [] n.r = "(" -> stringLoop(n.l, balance + 1)
          [] n.r = ")" ->
                IF balance - 1 <= 0 THEN emit(n.l, "itemString", "emit")
                ELSE stringLoop(n.l, balance - 1)
          [] n.r = eof -> errorf(n.l, msgUnterminatedString)
          [] OTHER -> stringLoop(n.l, balance)

lexStringObj(lx) == stringLoop(lx, 1)

RECURSIVE lexHexObj(_)
lexHexObj(lx) ==
    LET n == next(lx)
    IN  CASE n.r \in hexDigits \/ IsSpace(n.r) -> lexHexObj(n.l)
          [] n.r = ">" -> emit(n.l, "itemHexString", "emit")
          [] n.r = eof -> errorf(n.l, msgUnterminatedHex)
          [] OTHER -> errorf(n.l, msgIllegalHex \o FmtU(n.r))

RECURSIVE spaceLoop(_)
spaceLoop(lx) ==
    LET p == peek(lx)
    IN  IF IsSpace(p.r) THEN spaceLoop(next(p.l).l) ELSE p.l

lexSpace(lx) == emit(spaceLoop(lx), "itemSpace", "emit")

RECURSIVE wordLoop(_)
wordLoop(lx) ==
    LET p == peek(lx)
    IN  IF isAlphaNumeric(p.r) THEN wordLoop(next(p.l).l) ELSE p.l

\* lexWord without the switch on the keyword: dispatch resumes after stream
lexWord_noSwitch(lx) ==
    LET l1 == wordLoop(lx)
        w == Slice(l1.start, l1.pos)
    IN  IF w \in DOMAIN keytoks THEN emit(l1, keytoks[w], "emit")
        ELSE emit(l1, "itemWord", "emit")

lexWord(lx) ==
    LET l1 == wordLoop(lx)
        w == Slice(l1.start, l1.pos)
    IN  IF w \in DOMAIN keytoks
        THEN emit(l1, keytoks[w], IF keytoks[w] = "itemStream" THEN "emitStream" ELSE "emit")
        ELSE emit(l1, "itemWord", "emit")

\* scanNumber that leaves the byte after the number unread on failure
scanNumber_noNext(lx) ==
    LET l1 == accept(lx, {"+", "-"}).l
        l2 == acceptRun(l1, Digits)
        a == accept(l2, {"."})
        l3 == IF a.ok THEN acceptRun(a.l, Digits) ELSE a.l
        p1 == peek(l3)
    IN  IF isDelim(p1.r) \/ IsSpace(p1.r) \/ p1.r = eof
        THEN [ok |-> TRUE, l |-> p1.l]
        ELSE [ok |-> FALSE, l |-> p1.l]

\* scanNumber: [ok |-> its result, l |-> the lexer]
scanNumber(lx) ==
    LET l1 == accept(lx, {"+", "-"}).l
        l2 == acceptRun(l1, Digits)
        a == accept(l2, {"."})
        l3 == IF a.ok THEN acceptRun(a.l, Digits) ELSE a.l
        p1 == peek(l3)
        p2 == peek(p1.l)
        p3 == peek(p2.l)
    IN  IF isDelim(p1.r) THEN [ok |-> TRUE, l |-> p1.l]
        ELSE IF IsSpace(p2.r) THEN [ok |-> TRUE, l |-> p2.l]
        ELSE IF p3.r = eof THEN [ok |-> TRUE, l |-> p3.l]
        ELSE [ok |-> FALSE, l |-> next(p3.l).l]

lexNumber(lx) ==
    LET s == scanNumber(lx)
    IN  IF ~s.ok THEN errorf(s.l, msgBadNumber \o FmtQ(Slice(s.l.start, s.l.pos)))
        ELSE emit(s.l, "itemNumber", "emit")

\* ------------------------------------------------------------------------
\* What follows a send, once it has completed
\* ------------------------------------------------------------------------

\* a channel with a buffer of one item: a send completes at once
SendDone_buffered == Len(items) <= 1

\* a send on the unbuffered channel completes when nextItem has received it
SendDone == items = <<>>

\* emit without the update of start
emitDone_noStart(lx) == lx

\* the rest of emit
emitDone(lx) == [lx EXCEPT !.start = lx.pos]

\* errorf returning to dispatch
errorfDone_resume(lx) == [lx EXCEPT !.state = "lexDefault"]

\* the rest of errorf: return nil
errorfDone(lx) == [lx EXCEPT !.state = "nil"]

\* lexStream without the advance over the marker
streamBodySent_noAdvance(lx) == emit(emitDone(lx), "itemEndStream", "emit")

\* the rest of lexStream after the stream body is sent, up to its second send
streamBodySent(lx) ==
    LET l1 == emitDone(lx)
    IN  emit([l1 EXCEPT !.pos = l1.pos + Len(rightStream)], "itemEndStream", "emit")

\* ------------------------------------------------------------------------
\* The inputs
\* ------------------------------------------------------------------------

CoreChunks ==
    { <<" ">>, <<"\n">>, <<"\r">>, <<"%">>, <<"/">>, <<"[">>, <<"]">>, <<"<">>,
      <<">">>, <<"(">>, <<")">>, <<"\\">>, <<"1">>, <<".">>, <<"-">>, <<"a">>,
      <<"A9">>, <<"C3", "A9">>, leftDict, rightDict, leftStream, rightStream }

\* the keywords, and what sets a keyword off from the next token
KeyChunks ==
    DOMAIN keytoks \cup { <<" ">>, <<"\n">>, <<"a">>, <<"1">>, <<"[">>, <<"%">> }

\* the bytes a literal string is made of: parentheses, the backslash, a body
StringChunks == { <<"(">>, <<")">>, <<"\\">>, <<"a">> }

\* the four brackets of lexDefault, each followed by white space
BracketChunks ==
    { <<"[", " ">>, <<"]", " ">>, leftDict \o <<" ">>, rightDict \o <<" ">> }

RECURSIVE Flatten(_)
Flatten(cs) == IF cs = <<>> THEN <<>> ELSE Head(cs) \o Flatten(Tail(cs))

\* s is the concatenation of at most max chunks of the set chunks
IsInput(s, chunks, max) ==
    \E n \in 0..max : \E cs \in [1..n -> chunks] : s = Flatten(cs)

\* ------------------------------------------------------------------------
\* The state machine
\* ------------------------------------------------------------------------

\* lex: the lexer is built over one of the inputs and the goroutine of run
\* started, about to call lexDefault
Init ==
    /\ \/ IsInput(input, CoreChunks, MaxChunks)
       \/ IsInput(input, KeyChunks, MaxKeyChunks)
       \/ IsInput(input, StringChunks, MaxStringChunks)
       \/ IsInput(input, BracketChunks, MaxBracketChunks)
    /\ l = [state |-> "lexDefault", pos |-> 0, start |-> 0, width |-> 0,
            lastPos |-> 0, arrayDepth |-> 0, dictDepth |-> 0]
    /\ pc = "run"
    /\ items = <<>>
    /\ sent = <<>>
    /\ received = <<>>

\* run calls the state function fn, which goes on to res
Call(fn, res) ==
    /\ pc = "run"
    /\ l.state = fn
    /\ l' = res.l
    /\ pc' = res.pc
    /\ items' = items \o res.out
    /\ sent' = sent \o res.out
    /\ UNCHANGED <<input, received>>

LexDefault == Call("lexDefault", lexDefault(l))

LexSpace == Call("lexSpace", lexSpace(l))

LexName == Call("lexName", lexName(l))

LexNumber == Call("lexNumber", lexNumber(l))

LexWord == Call("lexWord", lexWord(l))

LexStringObj == Call("lexStringObj", lexStringObj(l))

LexHexObj == Call("lexHexObj", lexHexObj(l))

LexComment == Call("lexComment", lexComment(l))

LexLeftDict == Call("lexLeftDict", lexLeftDict(l))

LexRightDict == Call("lexRightDict", lexRightDict(l))

LexStream == Call("lexStream", lexStream(l))

\* emit that does not wait for its item to be taken
EmitReturn_noWait ==
    /\ pc \in {"emit", "emitStream", "emitLeftArray", "emitEOF"}
    /\ l' = CASE pc = "emit" -> [emitDone(l) EXCEPT !.state = "lexDefault"]
              [] pc = "emitStream" -> [emitDone(l) EXCEPT !.state = "lexStream"]
              [] pc = "emitLeftArray" ->
                    [emitDone(l) EXCEPT !.arrayDepth = @ + 1, !.state = "lexDefault"]
              [] pc = "emitEOF" -> [emitDone(l) EXCEPT !.state = "nil"]
    /\ pc' = IF l'.state = "nil" THEN "done" ELSE "run"
    /\ UNCHANGED <<input, items, sent, received>>

\* the send of an emit has completed: the state function finishes and returns
EmitReturn ==
    /\ pc \in {"emit", "emitStream", "emitLeftArray", "emitEOF"}
    /\ SendDone
    /\ l' = CASE pc = "emit" -> [emitDone(l) EXCEPT !.state = "lexDefault"]
              [] pc = "emitStream" -> [emitDone(l) EXCEPT !.state = "lexStream"]
              [] pc = "emitLeftArray" ->
                    [emitDone(l) EXCEPT !.arrayDepth = @ + 1, !.state = "lexDefault"]
              [] pc = "emitEOF" -> [emitDone(l) EXCEPT !.state = "nil"]
    /\ pc' = IF l'.state = "nil" THEN "done" ELSE "run"
    /\ UNCHANGED <<input, items, sent, received>>

\* the send of an errorf has completed: the state function returns nil
ErrorfReturn ==
    /\ pc = "errorf"
    /\ SendDone
    /\ l' = errorfDone(l)
    /\ pc' = IF l'.state = "nil" THEN "done" ELSE "run"
    /\ UNCHANGED <<input, items, sent, received>>

\* the send of the stream body has completed: lexStream goes on to send the
\* endstream marker
StreamBodySent ==
    /\ pc = "emitStreamBody"
    /\ SendDone
    /\ LET res == streamBodySent(l)
       IN  /\ l' = res.l
           /\ pc' = res.pc
           /\ items' = items \o res.out
           /\ sent' = sent \o res.out
    /\ UNCHANGED <<input, received>>

\* the consumer calls nextItem and an item is there to receive
NextItem ==
    /\ items # <<>>
    /\ received' = Append(received, Head(items))
    /\ l' = [l EXCEPT !.lastPos = Head(items).pos]
    /\ items' = Tail(items)
    /\ UNCHANGED <<input, pc, sent>>

Producer ==
    \/ LexDefault
    \/ LexSpace
    \/ LexName
    \/ LexNumber
    \/ LexWord
    \/ LexStringObj
    \/ LexHexObj
    \/ LexComment
    \/ LexLeftDict
    \/ LexRightDict
    \/ LexStream
    \/ EmitReturn
    \/ ErrorfReturn
    \/ StreamBodySent

Next == Producer \/ NextItem

Spec == Init /\ [][Next]_vars

\* ------------------------------------------------------------------------
\* Properties
\* ------------------------------------------------------------------------

Terminal(it) == it.typ \in {"itemEOF", "itemError"}

Last(q) == q[Len(q)]

RECURSIVE ConcatVals(_)
ConcatVals(q) == IF q = <<>> THEN <<>> ELSE Head(q).val \o ConcatVals(Tail(q))

NonError(q) == SelectSeq(q, LAMBDA it : it.typ # "itemError")

\* the first token starts at 0, each later one where the previous one ended
Contiguous(q) ==
    /\ q # <<>> => q[1].pos = 0
    /\ \A i \in 1..(Len(q) - 1) : q[i + 1].pos = q[i].pos + Len(q[i].val)

\* the value of a token is the input at the token's offset
ValueIsSlice(it) ==
    /\ it.pos + Len(it.val) <= Len(input)
    /\ it.val = Slice(it.pos, it.pos + Len(it.val))

\* no step is left: nothing is there for nextItem to receive, and the
\* goroutine of run is neither about to call a state function nor at a send
Halted ==
    /\ items = <<>>
    /\ pc \notin {"run", "emit", "emitStream", "emitLeftArray", "emitEOF",
                  "emitStreamBody", "errorf"}

\* C1: for every finite input, with the consumer calling nextItem again and
\* again, the scan terminates: it comes to rest only with a terminal token
\* (itemEOF or itemError) sent and received and the state nil, in whatever
\* state function the end of the input is met.
C1_Terminates ==
    Halted => /\ l.state = "nil"
              /\ received # <<>>
              /\ Terminal(Last(received))

\* C2: at most one terminal token is ever sent and no token is sent after
\* it: a terminal token is the last one sent, and the state function that
\* sent it returns nil.
C2_OneTerminal ==
    /\ \A i \in 1..Len(sent) : Terminal(sent[i]) => i = Len(sent)
    /\ (sent # <<>> /\ Terminal(Last(sent))) => pc \in {"emitEOF", "errorf", "done"}
    /\ pc = "done" <=> l.state = "nil"

C2_Witness ==
    /\ pc = "done"
    /\ Len(received) >= 3
    /\ Last(received).typ = "itemError"

\* C3, as stated: the values of all the tokens sent, the error token
\* included, concatenate to a prefix of the input, and the tokens are
\* contiguous from offset 0.
C3_AllValuesConcat ==
    LET c == ConcatVals(sent)
    IN  /\ Len(c) <= Len(input)
        /\ c = Slice(0, Len(c))
        /\ Contiguous(sent)

\* C3, amended: the values of all the tokens sent other than the error token
\* concatenate to input[0:n], n being the offset at which the last of them
\* ends (l.start once its emit has returned); the first token starts at
\* offset 0 and every later token, the error token included, starts at the
\* previous token's start offset plus the length of the previous token's
\* value.
C3_NonErrorValuesConcat ==
    LET c == ConcatVals(NonError(sent))
    IN  /\ Len(c) <= Len(input)
        /\ c = Slice(0, Len(c))
        /\ Contiguous(sent)
        /\ pc = "run" => l.start = Len(c)
        /\ (sent # <<>> /\ Last(sent).typ = "itemError") => Last(sent).pos = Len(c)

C3_Witness ==
    /\ Len(sent) >= 3
    /\ Last(sent).typ = "itemError"
    /\ Len(ConcatVals(NonError(sent))) >= 2

\* C4, as stated: every token sent, whatever its kind, has the value
\* input[pos : pos+len(val)].
C4_EveryValueIsSlice == \A i \in 1..Len(sent) : ValueIsSlice(sent[i])

\* C4, amended: every token sent other than an error token has the value
\* input[pos : pos+len(val)], pos being the token's own start offset (the
\* value of an error token is the text of the error).
C4_NonErrorValueIsSlice ==
    \A i \in 1..Len(sent) : sent[i].typ # "itemError" => ValueIsSlice(sent[i])

C4_Witness ==
    /\ Len(sent) >= 3
    /\ sent[2].typ \notin {"itemError", "itemEOF"}
    /\ sent[2].pos > 0
    /\ Last(sent).typ = "itemError"

\* C5: the tokens returned by successive nextItem calls have strictly
\* increasing start offsets, the terminal token and the stream body /
\* endstream pair included, and every non-terminal token has a non-empty
\* value.
C5_StrictlyIncreasing ==
    /\ \A i \in 1..(Len(received) - 1) : received[i].pos < received[i + 1].pos
    /\ \A i \in 1..Len(sent) : ~Terminal(sent[i]) => Len(sent[i].val) > 0

C5_Witness ==
    /\ Len(received) >= 4
    /\ received[2].typ = "itemStreamBody"
    /\ received[3].typ = "itemEndStream"
    /\ Terminal(received[4])

\* C6: in every reachable state, the one in which an unexpected-terminator
\* error is reported included, arrayDepth >= 0 and dictDepth >= 0.
C6_DepthsNonNegative == l.arrayDepth >= 0 /\ l.dictDepth >= 0

\* dispatch is about to read a ']' with arrayDepth 0
ExtraArrayCloser ==
    /\ pc = "run" /\ l.state = "lexDefault"
    /\ l.pos + 1 <= Len(input) /\ input[l.pos + 1] = "]"
    /\ l.arrayDepth = 0

\* dispatch is about to read '>>' with dictDepth 0
ExtraDictCloser ==
    /\ pc = "run" /\ l.state = "lexDefault"
    /\ l.pos + 2 <= Len(input) /\ input[l.pos + 1] = ">" /\ input[l.pos + 2] = ">"
    /\ l.dictDepth = 0

UnexpectedTerminator(it) ==
    it.typ = "itemError" /\ it.val \in {msgUnexpectedArray, msgUnexpectedDict}

\* C7: when dispatch meets ']' with arrayDepth 0, or '>>' with dictDepth 0,
\* at any depth of the other kind, the token sent is the unexpected-terminator
\* error at the offset of the closer; the right-array / right-dict token is
\* not sent, no token follows the error, and the scan ends.
C7_ExtraCloser ==
    /\ [][/\ ExtraArrayCloser =>
                /\ sent' = Append(sent, item("itemError", l.pos, msgUnexpectedArray))
                /\ pc' = "errorf"
          /\ ExtraDictCloser =>
                /\ sent' = Append(sent, item("itemError", l.pos, msgUnexpectedDict))
                /\ pc' = "errorf"]_vars
    /\ [](\A i \in 1..Len(sent) : UnexpectedTerminator(sent[i]) =>
                /\ i = Len(sent)
                /\ pc \in {"errorf", "done"}
                /\ pc = "done" => l.state = "nil")

C7_Witness ==
    /\ pc = "done"
    /\ Len(received) >= 2
    /\ Last(received) = item("itemError", 1, msgUnexpectedDict)
    /\ l.arrayDepth > 0

\* the fields of the lexer that the goroutine of run writes
ProducerFields(lx) ==
    <<lx.state, lx.pos, lx.start, lx.width, lx.arrayDepth, lx.dictDepth>>

\* C8: the tokens returned by nextItem are the tokens sent, in the order
\* sent, none lost or duplicated; at most one token is outstanding, and while
\* one is the producer does not move.
C8_Handoff ==
    /\ [](received \o items = sent /\ Len(items) <= 1)
    /\ [][items # <<>> =>
            /\ ProducerFields(l') = ProducerFields(l)
            /\ pc' = pc
            /\ sent' = sent
            /\ received' = Append(received, sent[Len(received) + 1])]_vars

C8_Witness ==
    /\ Len(received) >= 2
    /\ items # <<>>
    /\ Len(sent) = 3

\* the offset of the first CR or LF at or after offset p (len(input) if none)
RECURSIVE FirstEOL(_)
FirstEOL(p) ==
    IF p >= Len(input) \/ isEndOfLine(input[p + 1]) THEN p ELSE FirstEOL(p + 1)

\* the offset of the first byte at or after offset p that is not white space
RECURSIVE FirstNonSpace(_)
FirstNonSpace(p) ==
    IF p >= Len(input) \/ ~IsSpace(input[p + 1]) THEN p ELSE FirstNonSpace(p + 1)

MarkerAt(p) ==
    /\ p + Len(rightStream) <= Len(input)
    /\ Slice(p, p + Len(rightStream)) = rightStream

\* C10: a stream-body token comes only right after a stream keyword token
\* and is followed next by an endstream token; its value is the input from
\* the end of the stream keyword up to, not including, the first later
\* occurrence of endstream, and the endstream token is that marker.  With no
\* endstream before the end of the input, the token after the stream keyword
\* is the unclosed-stream error and no stream-body token is sent.
C10_StreamBody ==
    /\ \A i \in 1..Len(sent) : sent[i].typ = "itemStreamBody" =>
          LET b == sent[i]
              e == b.pos + Len(b.val)
          IN  /\ i > 1
              /\ sent[i - 1] = item("itemStream", b.pos - Len(leftStream), leftStream)
              /\ ValueIsSlice(b)
              /\ MarkerAt(e)
              /\ \A p \in b.pos..(e - 1) : ~MarkerAt(p)
              /\ i < Len(sent) => sent[i + 1] = item("itemEndStream", e, rightStream)
    /\ \A i \in 1..(Len(sent) - 1) : sent[i].typ = "itemStream" =>
          LET p0 == sent[i].pos + Len(leftStream)
          IN  IF \E p \in p0..Len(input) : MarkerAt(p)
              THEN sent[i + 1].typ = "itemStreamBody" /\ sent[i + 1].pos = p0
              ELSE sent[i + 1] = item("itemError", p0, msgUnclosedStream)
    /\ pc = "emitStreamBody" <=> (sent # <<>> /\ Last(sent).typ = "itemStreamBody")

C10_Witness ==
    /\ Len(sent) >= 3
    /\ sent[1].typ = "itemStream"
    /\ sent[2].typ = "itemStreamBody"
    /\ sent[3].typ = "itemEndStream"

\* ------------------------------------------------------------------------
\* C11: numbers
\* ------------------------------------------------------------------------

\* the byte at offset p, "" past the end
ByteAt(p) == IF p < Len(input) THEN input[p + 1] ELSE ""

\* the rune at offset p and the bytes it takes, eof and 0 past the end
RuneAt(p) == IF p >= Len(input) THEN <<eof, 0>> ELSE DecodeRune(input, p)

RECURSIVE SkipDigits(_)
SkipDigits(p) == IF ByteAt(p) \in Digits THEN SkipDigits(p + 1) ELSE p

\* the end of the longest text at p made of an optional sign, digits, an
\* optional point and digits
NumEnd(p) ==
    LET a == SkipDigits(IF ByteAt(p) \in {"+", "-"} THEN p + 1 ELSE p)
    IN  IF ByteAt(a) = "." THEN SkipDigits(a + 1) ELSE a

AtNumber == pc = "run" /\ l.state = "lexNumber"

\* what lexNumber sends when the text reported on failure ends n bytes
\* after the number
NumberStep(n) ==
    LET e == NumEnd(l.pos)
        b == RuneAt(e)[1]
    IN  IF isDelim(b) \/ IsSpace(b) \/ b = eof
        THEN /\ sent' = Append(sent, item("itemNumber", l.pos, Slice(l.pos, e)))
             /\ l'.pos = e
        ELSE sent' = Append(sent, item("itemError", l.pos,
                            msgBadNumber \o FmtQ(Slice(l.pos, e + n))))

\* C11 as stated: lexNumber scans an optional sign, digits, an optional
\* point and digits; before a delimiter, white space or the end of input
\* it sends one number token with that text and leaves the boundary unread;
\* otherwise it sends the bad-number error whose text is the scanned text
\* and the ONE BYTE after it, and no number token.
C11_NumberPlusOneByte == [][AtNumber => NumberStep(1)]_vars

\* C11, amended: as above, but the text of the error is the scanned text
\* and the one offending CHARACTER after it, all the bytes of its UTF-8
\* encoding (one byte when the byte is ASCII or not valid UTF-8).
C11_NumberPlusOneRune == [][AtNumber => NumberStep(RuneAt(NumEnd(l.pos))[2])]_vars

\* a number was refused for the character after its point
C11_Witness ==
    /\ sent = <<item("itemError", 0, msgBadNumber \o FmtQ(<<"1", ".", "a">>))>>
    /\ pc = "done"

\* ------------------------------------------------------------------------
\* C12: words and keywords
\* ------------------------------------------------------------------------

\* the end of the longest run of letters, digits and underscores at p
RECURSIVE SkipAlnum(_)
SkipAlnum(p) ==
    LET r == RuneAt(p)
    IN  IF isAlphaNumeric(r[1]) THEN SkipAlnum(p + r[2]) ELSE p

\* the kind of the word w: the ten keywords, spelled out
KeywordKind(w) ==
    CASE w = <<"o","b","j">> -> "itemObj"
      [] w = <<"e","n","d","o","b","j">> -> "itemEndObj"
      [] w = <<"s","t","r","e","a","m">> -> "itemStream"
      [] w = <<"e","n","d","s","t","r","e","a","m">> -> "itemEndStream"
      [] w = <<"t","r","a","i","l","e","r">> -> "itemTrailer"
      [] w = <<"x","r","e","f">> -> "itemXref"
      [] w = <<"s","t","a","r","t","x","r","e","f">> -> "itemStartXref"
      [] w = <<"t","r","u","e">> -> "itemTrue"
      [] w = <<"f","a","l","s","e">> -> "itemFalse"
      [] w = <<"n","u","l","l">> -> "itemNull"
      [] OTHER -> "itemWord"

AtWord == pc = "run" /\ l.state = "lexWord"

\* C12: lexWord consumes the longest run of letters, digits and
\* underscores and sends one token with it: of the keyword's kind when the
\* run is one of the ten keywords, a generic word otherwise; and the state
\* after the token has been taken is lexStream exactly when its kind is
\* stream.
C12_WordKind ==
    [][ /\ AtWord =>
            LET e == SkipAlnum(l.start)
                w == Slice(l.start, e)
            IN  /\ sent' = Append(sent, item(KeywordKind(w), l.start, w))
                /\ l'.pos = e
        /\ (pc \in {"emit", "emitStream"} /\ pc' = "run") =>
            (l'.state = "lexStream" <=> sent[Len(sent)].typ = "itemStream")
      ]_vars

\* a generic word, then the keyword stream, after which lexStream runs
C12_Witness ==
    /\ pc = "run"
    /\ l.state = "lexStream"
    /\ Len(sent) = 3
    /\ sent[1].typ = "itemWord"
    /\ sent[3] = item("itemStream", 2, <<"s","t","r","e","a","m">>)

\* ------------------------------------------------------------------------
\* C13, C14: the stray '>' and the end of input in lexDefault
\* ------------------------------------------------------------------------

AtDispatch == pc = "run" /\ l.state = "lexDefault"

\* lexDefault is about to read a '>' that no second '>' follows
StrayGreater == AtDispatch /\ ByteAt(l.pos) = ">" /\ ByteAt(l.pos + 1) # ">"

\* C13: in lexDefault a '>' not immediately followed by '>' gives the
\* illegal-character error for '>', whatever the depth counters are (and so
\* neither the end-of-input token nor an unterminated array or dict error).
C13_StrayGreaterIllegal ==
    [][StrayGreater =>
         sent' = Append(sent, item("itemError", l.start,
                                   msgIllegalChar \o FmtU(">")))]_vars

\* lexDefault is about to read the end of the input
AtEnd == AtDispatch /\ l.pos >= Len(input)

\* C14: at the end of the input lexDefault sends the unterminated array
\* error when arrayDepth > 0 (dictDepth > 0 or not), else the unterminated
\* dict error when dictDepth > 0, else the end-of-input token; and an
\* end-of-input token is only ever sent with both depth counters zero.
C14_EndOfInput ==
    /\ [][AtEnd =>
            sent' = Append(sent,
                IF l.arrayDepth > 0
                THEN item("itemError", l.start, msgUnterminatedArray)
                ELSE IF l.dictDepth > 0
                THEN item("itemError", l.start, msgUnterminatedDict)
                ELSE item("itemEOF", l.start, <<>>))]_vars
    /\ [](\A i \in 1..Len(sent) : sent[i].typ = "itemEOF" =>
              l.arrayDepth = 0 /\ l.dictDepth = 0)

\* the input ended inside an array and a dict: the array is the one reported
C14_Witness ==
    /\ sent # <<>>
    /\ sent[Len(sent)].typ = "itemError"
    /\ sent[Len(sent)].val = msgUnterminatedArray
    /\ l.pos = Len(input)
    /\ l.dictDepth > 0

\* ------------------------------------------------------------------------
\* C15: the end of a comment
\* ------------------------------------------------------------------------

\* C15: a comment token ends with its line terminator: it spans from '%'
\* through the first CR or LF, and through the LF too when that terminator
\* is a CR LF pair.
C15_CommentIncludesEOL ==
    \A i \in 1..Len(sent) : sent[i].typ = "itemComment" =>
        LET c == sent[i]
            e == FirstEOL(c.pos)
            t == IF ByteAt(e) = "\r" /\ ByteAt(e + 1) = "\n" THEN e + 2 ELSE e + 1
        IN  e < Len(input) /\ c.val = Slice(c.pos, t)

\* ------------------------------------------------------------------------
\* C16: literal strings
\* ------------------------------------------------------------------------

\* the offset after the ')' that brings the balance bal of the string read
\* up to offset p down to zero, -1 when the input ends first.  A backslash
\* takes the parenthesis right after it out of the count.
RECURSIVE StringEnd(_, _)
StringEnd(p, bal) ==
    LET b == ByteAt(p)
    IN  IF p >= Len(input) THEN -1
        ELSE IF b = "\\"
        THEN StringEnd(IF ByteAt(p + 1) \in {"(", ")"} THEN p + 2 ELSE p + 1, bal)
        ELSE IF b = "(" THEN StringEnd(p + 1, bal + 1)
        ELSE IF b = ")" THEN (IF bal = 1 THEN p + 1 ELSE StringEnd(p + 1, bal - 1))
        ELSE StringEnd(p + 1, bal)

AtString == pc = "run" /\ l.state = "lexStringObj"

\* C16: lexStringObj starts after the opening '(' with a balance of 1; a
\* backslash right before a parenthesis takes it out of the count, every
\* other '(' adds one and ')' takes one away; at balance 0 it sends exactly
\* one string token, from the opening '(' through that ')'; when the input
\* ends first it sends the unterminated string error and no string token.
C16_StringBalance ==
    [][AtString =>
         LET e == StringEnd(l.start + 1, 1)
         IN  /\ ByteAt(l.start) = "("
             /\ l.pos = l.start + 1
             /\ sent' = Append(sent,
                   IF e < 0
                   THEN item("itemError", l.start, msgUnterminatedString)
                   ELSE item("itemString", l.start, Slice(l.start, e)))
             /\ e >= 0 => l'.pos = e]_vars

\* a string with a nested pair and an escaped ')' is one token
C16_Witness ==
    /\ input = <<"(", "(", "\\", ")", ")", ")">>
    /\ sent = <<item("itemString", 0, input)>>
    /\ pc = "emit"

\* ------------------------------------------------------------------------
\* C17: the two kinds of bracket are balanced independently
\* ------------------------------------------------------------------------

\* offset p is the end of the input or holds white space
Separated(p) == p >= Len(input) \/ IsSpace(ByteAt(p))

\* the brackets "[", "]", "<<", ">>" of the input from offset p on, in
\* order; "bad" stands for anything that is not a bracket set off by white
\* space
RECURSIVE Brackets(_)
Brackets(p) ==
    LET b == ByteAt(p)
    IN  IF p >= Len(input) THEN <<>>
        ELSE IF IsSpace(b) THEN Brackets(p + 1)
        ELSE IF b \in {"[", "]"} /\ Separated(p + 1)
        THEN <<b>> \o Brackets(p + 1)
        ELSE IF b \in {"<", ">"} /\ ByteAt(p + 1) = b /\ Separated(p + 2)
        THEN <<IF b = "<" THEN "<<" ELSE ">>">> \o Brackets(p + 2)
        ELSE <<"bad">>

Count(q, x) == Len(SelectSeq(q, LAMBDA e : e = x))

\* no prefix of q has more closers than openers, and q has as many of each
Balanced(q, opener, closer) ==
    /\ \A n \in 0..Len(q) :
          Count(SubSeq(q, 1, n), closer) <= Count(SubSeq(q, 1, n), opener)
    /\ Count(q, closer) = Count(q, opener)

\* C17: for an input that is a sequence of "[", "]", "<<" and ">>" set off
\* by white space, the scan ends with the end-of-input token (and no error)
\* exactly when each kind of bracket, taken on its own, is balanced: no
\* prefix with more closers than openers, and equal totals.  How the two
\* kinds interleave plays no part.
C17_IndependentBalance ==
    LET q == Brackets(0)
    IN  (pc = "done" /\ \A i \in 1..Len(q) : q[i] # "bad") =>
            (sent[Len(sent)].typ = "itemEOF" <=>
                Balanced(q, "[", "]") /\ Balanced(q, "<<", ">>"))

\* "[ << ] >> " is scanned to the end of the input without an error
C17_Witness ==
    /\ input = <<"[", " ", "<", "<", " ", "]", " ", ">", ">", " ">>
    /\ pc = "done"
    /\ sent[Len(sent)].typ = "itemEOF"
    /\ Len(sent) = 9

\* ------------------------------------------------------------------------
\* C18: a consumer that stops
\* ------------------------------------------------------------------------

Sending == {"emit", "emitStream", "emitLeftArray", "emitEOF",
            "emitStreamBody", "errorf"}

\* C18: once the consumer stops calling nextItem with a token not yet
\* taken, the producer stays at its pending send for ever: while a token is
\* pending run is inside the send of that very token with l.state not nil,
\* and every step that is not a receive leaves the tokens sent, the lexer
\* and the producer's position as they are.  No step takes the token away
\* other than nextItem (no timeout, no cancellation).
C18_BlockedWithoutConsumer ==
    /\ [](items # <<>> =>
            /\ pc \in Sending
            /\ l.state # "nil"
            /\ items = <<sent[Len(sent)]>>)
    /\ [][(items # <<>> /\ received' = received) =>
            (sent' = sent /\ l' = l /\ pc' = pc /\ items' = items)]_vars

\* tokens were taken, the next one, not a terminal one, is pending
C18_Witness ==
    /\ Len(received) >= 1
    /\ items # <<>>
    /\ ~Terminal(items[1])
    /\ pc \in Sending

\* ------------------------------------------------------------------------
\* C19: the depth counters count the bracket tokens
\* ------------------------------------------------------------------------

CountTyp(q, t) == Len(SelectSeq(q, LAMBDA it : it.typ = t))

\* C19: whenever lexDefault is about to run, arrayDepth is the number of
\* left-array tokens sent less the number of right-array tokens sent, and
\* dictDepth the same for the dict tokens (so matching closers bring both
\* back to zero); and the state functions of strings, hex strings, names,
\* comments, stream bodies, numbers, words and white space leave both
\* counters alone, whatever bytes they read.
C19_DepthsCountTokens ==
    /\ [](AtDispatch =>
            /\ l.arrayDepth = CountTyp(sent, "itemLeftArray")
                                - CountTyp(sent, "itemRightArray")
            /\ l.dictDepth = CountTyp(sent, "itemLeftDict")
                               - CountTyp(sent, "itemRightDict"))
    /\ [][(pc # "emitLeftArray" /\ ~AtDispatch) =>
            (l'.arrayDepth = l.arrayDepth /\ l'.dictDepth = l.dictDepth)]_vars

\* an array and a dict were opened and closed: both counters are zero again
C19_Witness ==
    /\ AtDispatch
    /\ CountTyp(sent, "itemLeftArray") = 1
    /\ CountTyp(sent, "itemRightArray") = 1
    /\ CountTyp(sent, "itemLeftDict") = 1
    /\ CountTyp(sent, "itemRightDict") = 1
    /\ l.arrayDepth = 0
    /\ l.dictDepth = 0

\* ------------------------------------------------------------------------
\* C20: the positions stay inside the input
\* ------------------------------------------------------------------------

\* C20: in every reachable state 0 <= start <= pos <= len(input): the
\* backups after a peek and the fixed-width advances of lexLeftDict,
\* lexRightDict and lexStream never take pos below start or past the end.
C20_PositionsInRange ==
    /\ 0 <= l.start
    /\ l.start <= l.pos
    /\ l.pos <= Len(input)

\* lexRightDict advanced by the width of ">>" right up to the end of the
\* input
C20_Witness ==
    /\ pc = "emit"
    /\ sent # <<>>
    /\ sent[Len(sent)].typ = "itemRightDict"
    /\ l.start > 0
    /\ l.pos = Len(input)

====
